---- MODULE Spec2Model ----
(***************************************************************************)
(* Model of kge/dataset.py: the Dataset's lazily built 1-to-N indexes      *)
(* (index_1toN, group_by_sp_po), the compact view (prepare_index) and the  *)
(* relation-type classifier (_get_relation_types).                         *)
(*                                                                         *)
(* A triple is a tuple <<s, p, o>>; a split is a sequence of triples (the   *)
(* rows of the (n,3) tensor).  An index (the OrderedDict returned by       *)
(* group_by_sp_po) is a sequence of records [key, vals] in the dict's       *)
(* iteration order.  Python's 0-based columns 0,1,2 are the tuple          *)
(* positions 1,2,3 here.                                                   *)
(***************************************************************************)
EXTENDS Integers, Sequences, FiniteSets, TLC

VARIABLES
    num_entities,        \* Dataset.num_entities
    num_relations,       \* Dataset.num_relations (= len(Dataset.relations))
    train, valid, test,  \* Dataset.train / valid / test: sequences of triples
    indexes,             \* Dataset.indexes: name -> cache entry
    relation_types,      \* Dataset.relation_types: predicate -> label
    relations_per_type,  \* Dataset.relations_per_type: label -> set of predicates
    pc,                  \* where the Dataset is: "new", "ready", "failed", "idle"
    builds,              \* name -> number of group_by_sp_po runs for that name
    ret,                 \* outcome of the last index_1toN call
    triples, sp_po,      \* inputs of a stand-alone builder run
    index,               \* result of that builder run
    view,                \* result of prepare_index on it
    bpc,                 \* where the builder run is
    tpc, targ, tbuilt, tret  \* concurrent callers of index_1toN

vars == <<num_entities, num_relations, train, valid, test, indexes,
          relation_types, relations_per_type, pc, builds, ret,
          triples, sp_po, index, view, bpc, tpc, targ, tbuilt, tret>>

datasetVars == <<num_entities, num_relations, train, valid, test, indexes,
                 relation_types, relations_per_type, pc, builds, ret>>
builderVars == <<triples, sp_po, index, view, bpc>>
threadVars == <<tpc, targ, tbuilt, tret>>

-----------------------------------------------------------------------------
(* Bounds of the inputs. *)

\* entity identifiers occurring in the triples of the builder and classifier runs: 0..MaxId
MaxId == 2
\* predicate identifiers occurring in those triples: 0..MaxPred
MaxPred == 1
\* number of rows of the triple array of those runs: 0..MaxLen
MaxLen == 2

TripleSet(maxId, maxPred) == (0..maxId) \X (0..maxPred) \X (0..maxId)

SeqsUpTo(S, n) == UNION {[1..k -> S] : k \in 0..n}

-----------------------------------------------------------------------------
(* group_by_sp_po and the column selection of index_1toN. *)

\* triples[:, sp_po_cols]
Columns(rows, cols) ==
    [i \in 1..Len(rows) |-> <<rows[i][cols[1]], rows[i][cols[2]]>>]

\* triples[:, value_column]
Column(rows, col) == [i \in 1..Len(rows) |-> rows[i][col]]

\* position of key k in the dict d, 0 when d has no such key
KeyPos(d, k) ==
    IF \E j \in 1..Len(d) : d[j].key = k
    THEN CHOOSE j \in 1..Len(d) : d[j].key = k
    ELSE 0

\* result[tuple(sp_po)].append(o_s) on a defaultdict(list): a new key goes last
DictAppend(d, k, v) ==
    LET j == KeyPos(d, k)
    IN  IF j = 0
        THEN Append(d, [key |-> k, vals |-> <<v>>])
        ELSE [d EXCEPT ![j].vals = Append(@, v)]

\* the first loop of group_by_sp_po over the first n zipped rows
RECURSIVE GroupRows(_, _, _)
GroupRows(sp_po_list, o_s_list, n) ==
    IF n = 0
    THEN <<>>
    ELSE DictAppend(GroupRows(sp_po_list, o_s_list, n - 1),
                    sp_po_list[n], o_s_list[n])

\* insert v into the ascending sequence s, after the elements not above it
InsertSorted(s, v) ==
    LET k == Cardinality({i \in 1..Len(s) : s[i] <= v})
    IN  SubSeq(s, 1, k) \o <<v>> \o SubSeq(s, k + 1, Len(s))

\* Python's sorted() on a list of ints
RECURSIVE sorted(_)
sorted(s) ==
    IF s = <<>>
    THEN <<>>
    ELSE InsertSorted(sorted(SubSeq(s, 1, Len(s) - 1)), s[Len(s)])

Min(a, b) == IF a <= b THEN a ELSE b

group_by_sp_po(sp_po_list, o_s_list) ==
    LET n == Min(Len(sp_po_list), Len(o_s_list))
        result == GroupRows(sp_po_list, o_s_list, n)
    IN  [j \in 1..Len(result) |->
            [key |-> result[j].key, vals |-> sorted(result[j].vals)]]

ValidDirections == {"sp", "po"}

\* the columns index_1toN picks for a direction (0-based [0,1] / [1,2] in the source)
sp_po_cols(dir) == IF dir = "sp" THEN <<1, 2>> ELSE <<2, 3>>

\* a builder that collects the object column for both directions
value_column_AlwaysObject(dir) == 3

value_column(dir) == IF dir = "sp" THEN 3 ELSE 1

\* Dataset.group_by_sp_po(triples[:, sp_po_cols], triples[:, value_column])
BuildIndex(rows, dir) ==
    group_by_sp_po(Columns(rows, sp_po_cols(dir)), Column(rows, value_column(dir)))

-----------------------------------------------------------------------------
(* prepare_index *)

RECURSIVE Concat(_)
Concat(ss) == IF ss = <<>> THEN <<>> ELSE Head(ss) \o Concat(Tail(ss))

\* torch.cat(list of 1-D tensors): raises RuntimeError on an empty list
TorchCat(tensors) ==
    [raised |-> tensors = <<>>, value |-> Concat(tensors)]

\* torch.cumsum(t, 0)
RECURSIVE CumSum(_)
CumSum(s) ==
    IF s = <<>>
    THEN <<>>
    ELSE LET init == CumSum(SubSeq(s, 1, Len(s) - 1))
         IN  Append(init, (IF init = <<>> THEN 0 ELSE init[Len(init)]) + s[Len(s)])

NoView == [raised |-> FALSE, keys |-> <<>>, values |-> <<>>, offsets |-> <<>>]

prepare_index(idx) ==
    LET keys == [j \in 1..Len(idx) |-> idx[j].key]
        o_s == TorchCat([j \in 1..Len(idx) |-> idx[j].vals])
        offsets == CumSum(<<0>> \o [j \in 1..Len(idx) |-> Len(idx[j].vals)])
    IN  IF o_s.raised
        THEN [NoView EXCEPT !.raised = TRUE]
        ELSE [raised |-> FALSE, keys |-> keys, values |-> o_s.value,
              offsets |-> offsets]

-----------------------------------------------------------------------------
(* A stand-alone run of the builder and of prepare_index on one triple array. *)

IdleDataset ==
    /\ num_entities = 0 /\ num_relations = 0
    /\ train = <<>> /\ valid = <<>> /\ test = <<>>
    /\ indexes = <<>> /\ relation_types = <<>> /\ relations_per_type = <<>>
    /\ pc = "idle" /\ builds = <<>> /\ ret = <<>>

IdleBuilder ==
    /\ triples = <<>> /\ sp_po = "sp" /\ index = <<>> /\ view = NoView
    /\ bpc = "idle"

IdleThreads ==
    /\ tpc = <<>> /\ targ = <<>> /\ tbuilt = <<>> /\ tret = <<>>

InitBuilder ==
    /\ IdleDataset
    /\ IdleThreads
    /\ triples \in SeqsUpTo(TripleSet(MaxId, MaxPred), MaxLen)
    /\ sp_po = "sp"
    /\ index = <<>>
    /\ view = NoView
    /\ bpc = "input"

\* index_1toN's build step on the array, for a valid direction
GroupBy(dir) ==
    /\ bpc = "input"
    /\ sp_po' = dir
    /\ index' = BuildIndex(triples, dir)
    /\ bpc' = "grouped"
    /\ UNCHANGED <<triples, view, datasetVars, threadVars>>

PrepareIndex ==
    /\ bpc = "grouped"
    /\ view' = prepare_index(index)
    /\ bpc' = "prepared"
    /\ UNCHANGED <<triples, sp_po, index, datasetVars, threadVars>>

NextBuilder ==
    \/ \E dir \in ValidDirections : GroupBy(dir)
    \/ PrepareIndex

SpecBuilder == InitBuilder /\ [][NextBuilder]_vars

-----------------------------------------------------------------------------
(* The Dataset: index cache and relation-type classifier. *)

ValidSplits == {"train", "valid", "test"}

\* name = split + "_" + sp_po
IndexName(split, dir) == split \o "_" \o dir

Names == {IndexName(s, d) : s \in ValidSplits, d \in ValidDirections}

\* dict.get(k): None (some = FALSE) when the key is missing
DictGet(d, k) ==
    IF k \in DOMAIN d
    THEN [some |-> TRUE, val |-> d[k]]
    ELSE [some |-> FALSE, val |-> <<>>]

\* d[k] = v
DictSet(d, k, v) ==
    [x \in (DOMAIN d) \cup {k} |-> IF x = k THEN v ELSE d[x]]

\* Python truth value of dict.get(k): None and the empty OrderedDict are falsy
Truthy(got) == got.some /\ Len(got.val) > 0

\* the triples index_1toN selects for a valid split
SplitTriples(split, tr, va, te) ==
    IF split = "train" THEN tr
    ELSE IF split = "valid" THEN va
    ELSE te

\* an index_1toN that creates the cache entry before it validates the direction
index_1toN_StoresBeforeValidating(idxs, blds, tr, va, te, split, dir) ==
    IF split \notin ValidSplits
    THEN [raised |-> "ValueError", indexes |-> idxs, builds |-> blds, value |-> <<>>]
    ELSE IF dir \notin ValidDirections
    THEN [raised |-> "ValueError",
          indexes |-> DictSet(idxs, IndexName(split, dir), <<>>),
          builds |-> blds, value |-> <<>>]
    ELSE LET name == IndexName(split, dir)
             stored == IF ~Truthy(DictGet(idxs, name))
                       THEN DictSet(idxs, name,
                                    BuildIndex(SplitTriples(split, tr, va, te), dir))
                       ELSE idxs
             counted == IF ~Truthy(DictGet(idxs, name))
                        THEN [blds EXCEPT ![name] = @ + 1]
                        ELSE blds
         IN  [raised |-> "no", indexes |-> stored, builds |-> counted,
              value |-> DictGet(stored, name).val]

\* index_1toN on a Dataset whose cache is idxs (blds counts the builder's
\* runs): the new cache, the new counts and what the call returns or raises
index_1toN(idxs, blds, tr, va, te, split, dir) ==
    IF split \notin ValidSplits
    THEN [raised |-> "ValueError", indexes |-> idxs, builds |-> blds, value |-> <<>>]
    ELSE IF dir \notin ValidDirections
    THEN [raised |-> "ValueError", indexes |-> idxs, builds |-> blds, value |-> <<>>]
    ELSE LET name == IndexName(split, dir)
             stored == IF ~Truthy(DictGet(idxs, name))
                       THEN DictSet(idxs, name,
                                    BuildIndex(SplitTriples(split, tr, va, te), dir))
                       ELSE idxs
             counted == IF ~Truthy(DictGet(idxs, name))
                        THEN [blds EXCEPT ![name] = @ + 1]
                        ELSE blds
         IN  [raised |-> "no", indexes |-> stored, builds |-> counted,
              value |-> DictGet(stored, name).val]

RECURSIVE SumSeq(_)
SumSeq(s) == IF s = <<>> THEN 0 ELSE Head(s) + SumSeq(Tail(s))

\* the inner loop of _get_relation_types over the first n items of idx;
\* p is 1 for the sp index and 0 for the po index; rows[r] holds the columns
\* 0..3 of relation_stats[r] at positions 1..4; indexing a row outside the
\* tensor raises IndexError
RECURSIVE StatsLoop(_, _, _, _)
StatsLoop(stats, idx, p, n) ==
    IF n = 0
    THEN stats
    ELSE LET prev == StatsLoop(stats, idx, p, n - 1)
             r == idx[n].key[p + 1]
         IN  IF prev.raised
             THEN prev
             ELSE IF r \notin DOMAIN prev.rows
             THEN [prev EXCEPT !.raised = TRUE]
             ELSE [prev EXCEPT
                      !.rows[r][0 + p * 2 + 1] = SumSeq(idx[n].vals),
                      !.rows[r][1 + p * 2 + 1] = @ + 1]

\* a comparison that takes the undefined average 0/0 to exceed the threshold
RatioExceeds_UndefinedIsMany(num, den) ==
    IF den = 0
    THEN TRUE
    ELSE 2 * num > 3 * den

\* (num / den) > 1.5 in float arithmetic on non-negative counts:
\* 0/0 is NaN and compares False, x/0 is inf for x > 0
RatioExceeds(num, den) ==
    IF den = 0
    THEN num > 0
    ELSE 2 * num > 3 * den

\* '{}-{}'.format(a, b)
FormatLabel(a, b) == a \o "-" \o b

\* a labelling that writes the subject side "N" instead of "M"
LabelOf_SubjectN(row) ==
    FormatLabel(IF ~RatioExceeds(row[1], row[2]) THEN "1" ELSE "N",
                IF ~RatioExceeds(row[3], row[4]) THEN "1" ELSE "N")

\* the label of relation i from its statistics row
LabelOf(row) ==
    FormatLabel(IF ~RatioExceeds(row[1], row[2]) THEN "1" ELSE "M",
                IF ~RatioExceeds(row[3], row[4]) THEN "1" ELSE "N")

\* _get_relation_types given the two train indexes; relations has
\* num_relations entries
get_relation_types(nrel, spIndex, poIndex) ==
    LET zeros == [raised |-> FALSE, rows |-> [r \in 0..(nrel - 1) |-> <<0, 0, 0, 0>>]]
        afterSp == StatsLoop(zeros, spIndex, 1, Len(spIndex))
        afterPo == StatsLoop(afterSp, poIndex, 0, Len(poIndex))
    IN  IF afterPo.raised
        THEN [raised |-> TRUE, result |-> <<>>]
        ELSE [raised |-> FALSE,
              result |-> [i \in 0..(nrel - 1) |-> LabelOf(afterPo.rows[i])]]

\* self.relations_per_type.setdefault(v, set()).add(k) for every k, v
RelationsPerType(types) ==
    [l \in {types[k] : k \in DOMAIN types} |-> {k \in DOMAIN types : types[k] = l}]

NoRet == [outcome |-> "none", value |-> <<>>]

\* Dataset.__init__ from line 43: the cache starts empty, the classifier
\* builds the two train indexes and labels the relations
Construct ==
    /\ pc = "new"
    /\ LET sp == index_1toN(indexes, builds, train, valid, test, "train", "sp")
           po == index_1toN(sp.indexes, sp.builds, train, valid, test, "train", "po")
           types == get_relation_types(num_relations, sp.value, po.value)
       IN  /\ indexes' = po.indexes
           /\ builds' = po.builds
           /\ IF types.raised
              THEN /\ pc' = "failed"
                   /\ UNCHANGED <<relation_types, relations_per_type>>
              ELSE /\ pc' = "ready"
                   /\ relation_types' = types.result
                   /\ relations_per_type' = RelationsPerType(types.result)
    /\ UNCHANGED <<num_entities, num_relations, train, valid, test, ret,
                   builderVars, threadVars>>

\* how many repeated builder runs (runs for a name built before) the model follows
MaxRebuilds == 1

Rebuilt(blds) == {n \in Names : blds[n] > 1}

RECURSIVE SumOver(_, _)
SumOver(f, S) ==
    IF S = {} THEN 0
    ELSE LET x == CHOOSE x \in S : TRUE IN f[x] + SumOver(f, S \ {x})

Rebuilds(blds) == SumOver(blds, Rebuilt(blds)) - Cardinality(Rebuilt(blds))

SplitArgs == ValidSplits \cup {"bogus"}
DirectionArgs == ValidDirections \cup {"xy"}

\* a call dataset.index_1toN(split, dir) on the constructed Dataset
CallIndex1toN(split, dir) ==
    /\ pc = "ready"
    /\ LET r == index_1toN(indexes, builds, train, valid, test, split, dir)
       IN  /\ Rebuilds(r.builds) <= MaxRebuilds
           /\ indexes' = r.indexes
           /\ builds' = r.builds
           /\ ret' = IF r.raised = "no"
                     THEN [outcome |-> "ok", value |-> r.value]
                     ELSE [outcome |-> r.raised, value |-> <<>>]
    /\ UNCHANGED <<num_entities, num_relations, train, valid, test, pc,
                   relation_types, relations_per_type, builderVars, threadVars>>

\* entity identifiers of the cache runs: 0..CacheMaxId
CacheMaxId == 0
\* total number of rows of the three splits of the cache runs: 0..MaxRows
MaxRows == 1

\* the cache and caller runs use the single predicate 0 and num_relations = 1

\* every way to cut a row sequence into train, valid and test
Cuts(rows) == {c \in (0..Len(rows)) \X (0..Len(rows)) : c[1] <= c[2]}

Init ==
    /\ IdleBuilder
    /\ IdleThreads
    /\ num_relations = 1
    /\ num_entities \in {CacheMaxId, CacheMaxId + 1}
    /\ \E rows \in SeqsUpTo(TripleSet(CacheMaxId, 0), MaxRows) :
          \E c \in Cuts(rows) :
              /\ train = SubSeq(rows, 1, c[1])
              /\ valid = SubSeq(rows, c[1] + 1, c[2])
              /\ test = SubSeq(rows, c[2] + 1, Len(rows))
    /\ indexes = <<>>
    /\ builds = [n \in Names |-> 0]
    /\ relation_types = <<>>
    /\ relations_per_type = <<>>
    /\ ret = NoRet
    /\ pc = "new"

Next ==
    \/ Construct
    \/ \E split \in SplitArgs, dir \in DirectionArgs : CallIndex1toN(split, dir)

Spec == Init /\ [][Next]_vars

-----------------------------------------------------------------------------
(* Construction alone, on a training split with several rows. *)

InitClassify ==
    /\ IdleBuilder
    /\ IdleThreads
    /\ num_entities = MaxId + 1
    /\ num_relations \in {MaxPred, MaxPred + 1}
    /\ train \in SeqsUpTo(TripleSet(MaxId, MaxPred), MaxLen)
    /\ valid = <<>>
    /\ test = <<>>
    /\ indexes = <<>>
    /\ builds = [n \in Names |-> 0]
    /\ relation_types = <<>>
    /\ relations_per_type = <<>>
    /\ ret = NoRet
    /\ pc = "new"

SpecClassify == InitClassify /\ [][Construct]_vars

-----------------------------------------------------------------------------
(* Two callers of index_1toN on one constructed Dataset, interleaved at the  *)
(* points where the interpreter may switch threads: after the cache lookup  *)
(* of line 164, after the builder's run, after the store of line 165.       *)

Callers == {1, 2}

NoArg == [split |-> "", dir |-> ""]

InitConc ==
    /\ IdleBuilder
    /\ num_relations = 1
    /\ num_entities \in {CacheMaxId, CacheMaxId + 1}
    /\ \E rows \in SeqsUpTo(TripleSet(CacheMaxId, 0), MaxRows) :
          \E c \in Cuts(rows) :
              /\ train = SubSeq(rows, 1, c[1])
              /\ valid = SubSeq(rows, c[1] + 1, c[2])
              /\ test = SubSeq(rows, c[2] + 1, Len(rows))
    /\ LET sp == index_1toN(<<>>, [n \in Names |-> 0], train, valid, test, "train", "sp")
           po == index_1toN(sp.indexes, sp.builds, train, valid, test, "train", "po")
           types == get_relation_types(num_relations, sp.value, po.value)
       IN  /\ ~types.raised
           /\ indexes = po.indexes
           /\ builds = po.builds
           /\ relation_types = types.result
           /\ relations_per_type = RelationsPerType(types.result)
    /\ ret = NoRet
    /\ pc = "ready"
    /\ tpc = [t \in Callers |-> "start"]
    /\ targ = [t \in Callers |-> NoArg]
    /\ tbuilt = [t \in Callers |-> <<>>]
    /\ tret = [t \in Callers |-> NoRet]

ConcFrame ==
    UNCHANGED <<num_entities, num_relations, train, valid, test, relation_types,
                relations_per_type, pc, ret, builderVars>>

\* lines 145-164: validate the arguments and look the name up in the cache
T_Check(t, split, dir) ==
    /\ pc = "ready"
    /\ tpc[t] = "start"
    /\ targ' = [targ EXCEPT ![t] = [split |-> split, dir |-> dir]]
    /\ IF split \notin ValidSplits \/ dir \notin ValidDirections
       THEN /\ tpc' = [tpc EXCEPT ![t] = "done"]
            /\ tret' = [tret EXCEPT ![t] = [outcome |-> "ValueError", value |-> <<>>]]
       ELSE /\ tpc' = [tpc EXCEPT ![t] =
                         IF ~Truthy(DictGet(indexes, IndexName(split, dir)))
                         THEN "build" ELSE "return"]
            /\ UNCHANGED tret
    /\ UNCHANGED <<indexes, builds, tbuilt>>
    /\ ConcFrame

\* lines 165-167, right-hand side: the builder runs
T_Build(t) ==
    /\ tpc[t] = "build"
    /\ tbuilt' = [tbuilt EXCEPT ![t] =
                    BuildIndex(SplitTriples(targ[t].split, train, valid, test), targ[t].dir)]
    /\ builds' = [builds EXCEPT ![IndexName(targ[t].split, targ[t].dir)] = @ + 1]
    /\ tpc' = [tpc EXCEPT ![t] = "store"]
    /\ UNCHANGED <<indexes, targ, tret>>
    /\ ConcFrame

\* line 165: self.indexes[name] = ...
T_Store(t) ==
    /\ tpc[t] = "store"
    /\ indexes' = DictSet(indexes, IndexName(targ[t].split, targ[t].dir), tbuilt[t])
    /\ tpc' = [tpc EXCEPT ![t] = "return"]
    /\ UNCHANGED <<builds, targ, tbuilt, tret>>
    /\ ConcFrame

\* line 175: return self.indexes.get(name)
T_Return(t) ==
    /\ tpc[t] = "return"
    /\ tret' = [tret EXCEPT ![t] =
                  [outcome |-> "ok",
                   value |-> DictGet(indexes, IndexName(targ[t].split, targ[t].dir)).val]]
    /\ tpc' = [tpc EXCEPT ![t] = "done"]
    /\ UNCHANGED <<indexes, builds, targ, tbuilt>>
    /\ ConcFrame

NextConc ==
    \E t \in Callers :
        \/ \E split \in SplitArgs, dir \in DirectionArgs : T_Check(t, split, dir)
        \/ T_Build(t)
        \/ T_Store(t)
        \/ T_Return(t)

SpecConc == InitConc /\ [][NextConc]_vars

-----------------------------------------------------------------------------
(* Properties of the Dataset (Spec, SpecClassify, SpecConc). *)

\* C1 (as claimed): for every name, zero-triple splits included, the builder
\* runs at most once over all index_1toN calls, the constructor's included.
C1_AtMostOnceBuild ==
    pc \in {"new", "ready", "failed"} => \A n \in Names : builds[n] <= 1

\* For splits that hold at least one triple the builder does run at most once.
NonEmptySplitBuiltOnce ==
    pc \in {"new", "ready", "failed"} =>
        \A s \in ValidSplits, d \in ValidDirections :
            SplitTriples(s, train, valid, test) # <<>> => builds[IndexName(s, d)] <= 1

\* the groups of predicate p in a train index (predicate at key position pos)
GroupsOf(idx, pos, p) == {j \in 1..Len(idx) : idx[j].key[pos] = p}

\* sum of the completion counts of the groups js of idx
RECURSIVE CompletionCount(_, _)
CompletionCount(idx, js) ==
    IF js = {} THEN 0
    ELSE LET j == CHOOSE j \in js : TRUE
         IN  Len(idx[j].vals) + CompletionCount(idx, js \ {j})

TrainIndex(dir) == DictGet(indexes, IndexName("train", dir)).val

out_groups(p) == Cardinality(GroupsOf(TrainIndex("sp"), 2, p))
out_total(p) == CompletionCount(TrainIndex("sp"), GroupsOf(TrainIndex("sp"), 2, p))
in_groups(p) == Cardinality(GroupsOf(TrainIndex("po"), 1, p))
in_total(p) == CompletionCount(TrainIndex("po"), GroupsOf(TrainIndex("po"), 1, p))

\* the labels whose object side is "N", and those whose subject side is "1"
ObjectSideN == {FormatLabel(a, "N") : a \in {"1", "M", "N"}}
SubjectSide1 == {FormatLabel("1", b) : b \in {"1", "N"}}

Occurrences(p) == Cardinality({i \in 1..Len(train) : train[i][2] = p})

\* C2 (as claimed): the object side of p's label is "N" iff
\* out_total[p]/out_groups[p] > 1.5 and the subject side is "1" unless
\* in_total[p]/in_groups[p] > 1.5, with the totals counting completions; a
\* predicate of exactly one training triple is "1" on both sides.
C2_FanOutClassification ==
    pc = "ready" =>
        \A p \in 0..(num_relations - 1) :
            /\ Occurrences(p) > 0 =>
                  /\ relation_types[p] \in ObjectSideN
                        <=> 2 * out_total(p) > 3 * out_groups(p)
                  /\ relation_types[p] \notin SubjectSide1
                        <=> 2 * in_total(p) > 3 * in_groups(p)
            /\ Occurrences(p) = 1 => relation_types[p] = FormatLabel("1", "1")

\* C5: a call with an unknown split or an unknown direction raises ValueError
\* and leaves the index cache exactly as it was, whatever the cache holds.
C5_InvalidCallKeepsCache ==
    [][\A split \in SplitArgs, dir \in DirectionArgs :
          ((split \notin ValidSplits \/ dir \notin ValidDirections)
              /\ CallIndex1toN(split, dir))
          => (ret'.outcome = "ValueError" /\ indexes' = indexes)]_vars

\* C5 witness: an invalid call was refused while the cache held all six indexes
C5_Witness ==
    /\ pc = "ready"
    /\ ret.outcome = "ValueError"
    /\ DOMAIN indexes = Names

\* C6 (as claimed): after construction every predicate below num_relations has
\* one label among 1-1, 1-N, N-1, N-N, and relations_per_type has no other key.
C6_LabelsAsClaimed ==
    pc = "ready" =>
        /\ DOMAIN relation_types = 0..(num_relations - 1)
        /\ \A p \in DOMAIN relation_types :
              relation_types[p] \in {"1-1", "1-N", "N-1", "N-N"}
        /\ DOMAIN relations_per_type \subseteq {"1-1", "1-N", "N-1", "N-N"}

\* C6 (amended): after construction every predicate below num_relations has
\* one label among 1-1, 1-N, M-1, M-N (subject side "1" or "M", dash, object
\* side "1" or "N"), and relations_per_type has no other key.
C6_Labels ==
    pc = "ready" =>
        /\ DOMAIN relation_types = 0..(num_relations - 1)
        /\ \A p \in DOMAIN relation_types :
              relation_types[p] \in {"1-1", "1-N", "M-1", "M-N"}
        /\ DOMAIN relations_per_type \subseteq {"1-1", "1-N", "M-1", "M-N"}

\* C6 witness: a constructed Dataset with two relations of different labels,
\* one of them many on the subject side
C6_Witness ==
    /\ pc = "ready"
    /\ num_relations >= 2
    /\ "M-1" \in DOMAIN relations_per_type
    /\ Cardinality(DOMAIN relations_per_type) >= 2

InRange(p) == p \in 0..(num_relations - 1)

\* C7: a predicate below num_relations that no training triple uses is
\* labelled "1-1" at construction, and construction fails only when some
\* training triple has a predicate outside [0, num_relations).
C7_AbsentPredicate ==
    /\ pc = "ready" =>
          \A p \in 0..(num_relations - 1) :
              Occurrences(p) = 0 =>
                  (p \in DOMAIN relation_types /\ relation_types[p] = "1-1")
    /\ pc = "failed" => \E i \in 1..Len(train) : ~InRange(train[i][2])

\* C7 witness: constructed from a non-empty training split that leaves a
\* predicate unused
C7_Witness ==
    /\ pc = "ready"
    /\ train # <<>>
    /\ \E p \in 0..(num_relations - 1) : Occurrences(p) = 0

\* a split with a subject or object >= num_entities or a predicate >= num_relations
OutOfRange(rows) ==
    \E i \in 1..Len(rows) :
        \/ rows[i][1] >= num_entities
        \/ rows[i][3] >= num_entities
        \/ rows[i][2] >= num_relations

\* C8 (as claimed): a split with an out-of-range identifier never gets a cache
\* entry and index_1toN never returns an index for it; construction fails when
\* the training split has one.
C8_OutOfRangeRejected ==
    pc \in {"new", "ready", "failed"} =>
        /\ \A s \in ValidSplits, d \in ValidDirections :
              OutOfRange(SplitTriples(s, train, valid, test))
                  => IndexName(s, d) \notin DOMAIN indexes
        /\ OutOfRange(train) => pc # "ready"

\* C10 (as claimed): for a name the constructor left absent (a valid or test
\* index), no two callers are both past the lookup of that name having found
\* it absent, and for a split that holds triples the builder runs at most once.
C10_SerializedBuild ==
    pc = "ready" /\ DOMAIN tpc = Callers =>
        /\ \A t1, t2 \in Callers :
              (/\ t1 # t2
               /\ tpc[t1] \in {"build", "store"}
               /\ tpc[t2] \in {"build", "store"}
               /\ targ[t1].split # "train")
                  => targ[t1] # targ[t2]
        /\ \A s \in ValidSplits, d \in ValidDirections :
              SplitTriples(s, train, valid, test) # <<>> => builds[IndexName(s, d)] <= 1

-----------------------------------------------------------------------------
(* Properties of the builder and of prepare_index (SpecBuilder). *)

Elems(s) == {s[i] : i \in 1..Len(s)}

\* index.get(k, []) : the completion list stored under key k
Lookup(idx, k) ==
    IF KeyPos(idx, k) = 0 THEN <<>> ELSE idx[KeyPos(idx, k)].vals

IsAscending(s) == \A i \in 1..(Len(s) - 1) : s[i] <= s[i + 1]

SumLens(idx) == Len(Concat([j \in 1..Len(idx) |-> idx[j].vals]))

\* the triple a completion v of key k stands for, per direction
TripleOf(dir, k, v) ==
    IF dir = "sp" THEN <<k[1], k[2], v>> ELSE <<v, k[1], k[2]>>

\* the key and the completion of a triple, per direction
KeyOf(dir, t) == IF dir = "sp" THEN <<t[1], t[2]>> ELSE <<t[2], t[3]>>
ValueOf(dir, t) == IF dir = "sp" THEN t[3] ELSE t[1]

\* C3: every triple (s,p,o) of the array has o in the sp list of (s,p) and s
\* in the po list of (p,o); conversely every completion of every key, and
\* every key, comes from at least one triple of the array.
C3_RoundTrip ==
    bpc \in {"grouped", "prepared"} =>
        /\ \A i \in 1..Len(triples) :
              ValueOf(sp_po, triples[i]) \in Elems(Lookup(index, KeyOf(sp_po, triples[i])))
        /\ \A j \in 1..Len(index) :
              /\ index[j].vals # <<>>
              /\ \A v \in Elems(index[j].vals) :
                    TripleOf(sp_po, index[j].key, v) \in Elems(triples)

\* C3 witness: a po index in which one key collected two different subjects
C3_Witness ==
    /\ bpc = "grouped"
    /\ sp_po = "po"
    /\ \E j \in 1..Len(index) :
          /\ Len(index[j].vals) = 2
          /\ index[j].vals[1] # index[j].vals[2]
          /\ index[j].key[2] # index[j].vals[1]

\* the equations of the compact view v of the index idx
CompactViewOf(idx, v) ==
    LET m == Len(idx) IN
    /\ ~v.raised
    /\ v.keys = [j \in 1..m |-> idx[j].key]
    /\ Len(v.offsets) = m + 1
    /\ v.offsets[1] = 0
    /\ IsAscending(v.offsets)
    /\ v.offsets[m + 1] = SumLens(idx)
    /\ Len(v.values) = SumLens(idx)
    /\ \A i \in 1..m :
          LET slice == SubSeq(v.values, v.offsets[i] + 1, v.offsets[i + 1])
          IN  IsAscending(slice) /\ slice = idx[i].vals

\* C4 (as claimed): prepare_index on any index the builder produced returns
\* keys in iteration order, offsets of length m+1 starting at 0, non-decreasing
\* and ending at T = len(values), and each slice of values between two
\* offsets is ascending and equals the completion list of its key.
C4_CompactView == bpc = "prepared" => CompactViewOf(index, view)

\* C9 (as claimed): prepare_index of the empty index returns normally with
\* keys = [], values = [] and offsets = [0].
C9_EmptyIndex ==
    (bpc = "prepared" /\ index = <<>>) =>
        view = [raised |-> FALSE, keys |-> <<>>, values |-> <<>>, offsets |-> <<0>>]

\* On an index with at least one key prepare_index does return the compact view.
NonEmptyCompactView ==
    (bpc = "prepared" /\ index # <<>>) => CompactViewOf(index, view)

====
